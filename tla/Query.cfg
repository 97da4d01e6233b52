SPECIFICATION Spec
CONSTANTS
    Requests <- MCRequests
    Favourites <- MCFavourites
    Shares = {2, 40}
    Trust = {40, 100}
    Answers <- MCAnswers
    Scores = {20, 60}
    Places <- MCPlaces
    MaxDoubts = 1
INVARIANTS
    OnlyPermittedRun
    JointAnswersNeedOverlap
    NoSilentAnswer
    AskedOrTold
    ShownAgrees
