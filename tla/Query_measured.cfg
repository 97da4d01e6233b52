SPECIFICATION Spec
CONSTANTS
    Requests <- ChangeRequests
    Favourites <- MCFavourites
    Shares = {2, 40}
    Trust = {100}
    Answers <- PlainAnswers
    Scores = {60}
    Places <- MCPlaces
    MaxDoubts = 0
INVARIANTS
    MeasuredChangeStands
