SPECIFICATION Spec
CONSTANTS
    SECTOR_SIZE = 512
    TEMP_BUF_SIZE = 4096
    MULTIEXTENT_PART_SIZE = 2048
    UINT32 = 2560
    UINT16 = 20
    Twins = {"VIsoFile", "VIsoFile2"}
    Lengths = {1, 2049, 100000}
    DUMP_SIZE = 10240
    MaxReads = 1
    MaxShort = 1
    Volatile = {"b", "h"}
    None = None
    Trees <- MCTrees
INVARIANT VIsoTypeOK
INVARIANT DirectoriesFound
INVARIANT FilesFound
INVARIANT ImagePacked
INVARIANT BuildOutcome
INVARIANT ReadsImage
INVARIANT DescriptorKept
INVARIANT DumpRight
