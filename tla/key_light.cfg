SPECIFICATION Spec
CONSTANTS
    Settings = {"proxi", "pocket", "tilt"}
    MaxTasks = 4
    MaxPosts = 2
    isASUSCameraAvail = TRUE
    ChangesWhileOff = FALSE
    SettlesFirst = TRUE
INVARIANTS LightNeverOutlives
