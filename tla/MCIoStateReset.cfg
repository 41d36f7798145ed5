SPECIFICATION IoSpec
CONSTANTS
    Batches = 2
    Epochs = 2
    Ahead = 0
    MaxLives = 2
PROPERTY ResetReusesData
CHECK_DEADLOCK FALSE
