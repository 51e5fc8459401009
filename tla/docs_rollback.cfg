\* Release branches of the minor versions 9 and 10.
SPECIFICATION DocsSpec
CHECK_DEADLOCK FALSE
CONSTANTS
    Minors = {9, 10}
    MaxPatch = 1
PROPERTY
    DocsNeverGoBack
