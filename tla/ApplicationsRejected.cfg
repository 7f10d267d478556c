\* Two requests decide on the same read of a murojaat.
SPECIFICATION Spec
CONSTANTS
    Apps = {a1}
    Emps = {e1}
    Handlers = {h1, h2}
    MaxReopens = 1
    SweepLimit = 1
    Traffic = {"status", "assign"}
    Null = Null
    Keep = Keep
PROPERTIES RejectedIsFinal
