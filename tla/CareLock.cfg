CONSTANTS
    Devices = {A}
    First = A
    NoVoltage = NoVoltage
    Voltages = {0, 3}
    Cutoff = 0
    Warning = 1
    ResumeVoltage = 3
    ResumeSoc = 1
    Windows = {"none", "pv"}
    MinimumCharge = 1
    Full = 3
    Top = 4
    Never = Never
    NoTime = NoTime
    Due = 1
    Overdue = 1
    Confirm = 1
    MaxEvents = 1
SPECIFICATION CareSpec
PROPERTIES EmergencyCannotUnlock
