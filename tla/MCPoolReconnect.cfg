SPECIFICATION FairSpec
CONSTANT Size = 3
PROPERTIES ReconnectComesBack
CHECK_DEADLOCK FALSE
