SPECIFICATION USBSpec
CONSTANTS
    mouse = mouse
    disk1 = disk1
    Unknown = Unknown
    Devices <- MCDevices
    Disks <- MCDisks
    MaxChanges = 0
    MaxClicks = 1
    MaxEvents = 1
INVARIANTS
    ButtonsFollowSelection
