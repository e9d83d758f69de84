SPECIFICATION USBSpec
CONSTANTS
    mouse = mouse
    disk1 = disk1
    Unknown = Unknown
    Devices <- MCDevices
    Disks <- MCDisks
    MaxChanges = 2
    MaxClicks = 2
    MaxEvents = 3
CHECK_DEADLOCK FALSE
INVARIANTS
    OneEjectionAtATime
    MarkedWasUnmounted
PROPERTIES
    CountConverges
    EjectionAnswered
