SPECIFICATION Spec
CONSTANTS
    max_x = 3
    max_y = 3
    Width = 4
INVARIANTS StoresInPage
