CONSTANTS
    Kinds = {"keyboard"}
    MaxEvents = 2
    USB_NUMDEVICES = 3
SPECIFICATION Spec
PROPERTY DetachClears
