SPECIFICATION Spec
CONSTANTS
    nac = nac
    http = http
    gui = gui
    eventLoop = eventLoop
    lvgl = lvgl
    Nodes = {nac, http}
    NoNode = NoNode
    Main = main
    Others = {eventLoop, lvgl}
    Adds <- FirmwareAdds
    Removes <- FirmwareRemoves
INVARIANTS ListSound
