SPECIFICATION FairSpec
CONSTANTS
    Install = {a, b}
    MaxGen = 3
INVARIANTS TypeOK AtMostOnce OneSpeaker SpeechTrue
PROPERTIES OneAttempt EveryDraftSettled
