SPECIFICATION Spec
CONSTANTS
    OrderIds = {o1}
    Amounts = {0, 1, 2}
    NoQuantity = NoQuantity
PROPERTY AcceptanceIsAtomic
