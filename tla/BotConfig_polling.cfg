SPECIFICATION Spec
CONSTANTS
    Fields = {url, secret}
    Hooks = {h1, h2}
    Settings = {s1, s2}
    Default = Default
    Unset = Unset
    Blank = Blank
    Polling = Polling
    Absent = Absent
    Torn = Torn
INVARIANT
    AbsentMeansPolling
