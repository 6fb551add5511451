CONSTANTS
    Kinds = {"keyboard", "mouse", "other"}
    MaxEvents = 4
    USB_NUMDEVICES = 3
SPECIFICATION FairSpec
INVARIANTS TypeOK EndpointsValid PolledAsProbed TalksToItsDevice LedShowsRunning QuietBus
PROPERTY AttachmentEnds
