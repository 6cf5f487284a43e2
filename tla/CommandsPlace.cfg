\* One download, while another node asks this one to keep the same file.
SPECIFICATION Spec
CONSTANTS
    Sessions <- GetOnce
    None = ""
    Ports = {"8", "9"}
    Addresses = {"8", "9"}
    Names = {"f", "g"}
    Holders <- OneHolder
    Known = {1}
    Transfers = {1, 2}
PROPERTY PlacedIsStored
CHECK_DEADLOCK FALSE
