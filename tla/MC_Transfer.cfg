CONSTANTS
    Reports <- SomeReports
    NoReport = NoReport
    ReportShort = FALSE
    ReportWanted = 1
    DescPackets = 2
    DescWanted = 2
    USB_NAK_LIMIT = 2
    USB_RETRY_LIMIT = 3
    MaxFaults = 4
SPECIFICATION FairSpec
INVARIANTS TypeOK DescriptorWhole OneDirection
PROPERTIES PollsAsMailbox KeysArrive
