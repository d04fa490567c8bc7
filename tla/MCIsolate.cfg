\* Two events and `done`, a pipe that blocks on the third part of a reply.
CONSTANTS
    MaxEvents = 2
    PipeSize = 2
SPECIFICATION FairSpec
INVARIANTS TypeOK Faithful NoFalseAlarm
PROPERTIES StoppedForGood Promised Terminates
