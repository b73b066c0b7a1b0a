SPECIFICATION Spec
CONSTANTS
    nac = nac
    http = http
    gui = gui
    eventLoop = eventLoop
    lvgl = lvgl
    Nodes = {nac, http, gui}
    NoNode = NoNode
    Main = main
    Others = {}
    Adds <- SingleAdds
    Removes <- SingleRemoves
INVARIANTS ListSound
PROPERTIES ImplementsContract
