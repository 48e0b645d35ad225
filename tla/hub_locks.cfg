SPECIFICATION Spec
CONSTANTS
    Clients = {a, b, c}
    Viewers = {v}
    Objs = {o1, o2}
    None = None
PROPERTY MetricsKeepStreaming
CHECK_DEADLOCK FALSE
