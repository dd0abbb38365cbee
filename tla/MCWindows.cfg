SYMMETRY MCSymmetry
VIEW MCView
CONSTANTS
    shell = shell
    editor = editor
    third = third
    Process = {shell, editor, third}
    Shell = shell
    NULL = NULL
    MAX_WINDOWS = 2
    MAX_PROCESSES = 2
    ScreenWidth = 1024
    ScreenHeight = 768
    FONT_WIDTH = 8
    FONT_HEIGHT = 16
    VGA_WIDTH = 80
    VGA_HEIGHT = 25
    FRAME_BORDER = 2
    TITLE_BAR_HEIGHT = 24
    CONTENT_PADDING_X = 12
    CONTENT_PADDING_BOTTOM = 12
    INITIAL_FRAME_X = 40
    INITIAL_FRAME_Y = 72
    CASCADE_STEP_X = 28
    CASCADE_STEP_Y = 28
    RESIZE_MARGIN = 12
    MIN_VISIBLE_COLUMNS = 24
    MIN_VISIBLE_ROWS = 12
    CLOSE_BUTTON_SIZE = 14
    CLOSE_BUTTON_MARGIN = 8
    Points <- MCPoints
    Origins <- MCOrigins
    MAX_EVENTS = 3
SPECIFICATION Spec
INVARIANTS
    TypeOK
    StackIsExact
    GrabsAreLive
    FramesFit
    FocusAgrees
    DeadOwnNoWindow
    ScreenIsCurrent
PROPERTIES
    ResizeAnchors
    ClickTakesFocus
