---------------------------- MODULE MCUSBDevices ----------------------------
(* USBDevices with a mouse and a disk, any of which may have no serial number. *)
EXTENDS USBDevices

CONSTANTS mouse, disk1

MCDevices == {mouse, disk1}
MCDisks == {disk1}
=============================================================================
