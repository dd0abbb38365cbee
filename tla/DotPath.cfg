CONSTANTS
    NodeId = {root, n1, n2, n3}
    Root = root
    VFS_MAX_MOUNTS = 2
    VFS_MAX_OPEN_FILES = 2
    FAT32_MAX_OPEN_FILES = 1
    MAX_CHILDREN = 2
    MAX_COMPONENTS = 32
    Text <- AnyText
    DiskPresent = FALSE
    CommandLines <- DotSession
    MAX_DEPTH = 3
SPECIFICATION FairSpec
PROPERTY CommandsEnd
