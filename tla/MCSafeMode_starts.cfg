CONSTANT Limit = 3
SPECIFICATION Spec
PROPERTIES RetryReported ImplementsBudget
