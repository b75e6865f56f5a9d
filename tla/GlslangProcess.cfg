SPECIFICATION Spec
CONSTANTS
    Validators = {v1, v2, v3}
    MaxShaders = 3
INVARIANTS TypeOK UsersBalanced ProcessOutlivesClients
PROPERTIES AdapterPinsProcess
