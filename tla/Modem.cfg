\* Two 3G sources, CDMA and GPS share two modems of which one is used.
SPECIFICATION Spec
CONSTANTS
    coarse = coarse
    fine = fine
    phone = phone
    stick = stick
    here = here
    blank = blank
    odd = odd
    Threegs = {coarse, fine}
    Modems = {phone, stick}
    Offers <- MCOffers
    Towers = {here, blank, odd}
    Anonymous = {blank}
    Unknown = {odd}
    None = None
INVARIANTS
    NothingLeftOfGone
    RunningSourceAsks
    TowerHasOwner
    TowerIsCurrent
SYMMETRY MCSymmetry
CHECK_DEADLOCK FALSE
