SPECIFICATION Spec
CONSTANTS
    Plan <- MCPlanOdd
    Codes <- MCCodes
PROPERTIES ImplementsContract
