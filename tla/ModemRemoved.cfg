\* A modem without a location interface, plugged in and out.
SPECIFICATION Spec
CONSTANTS
    coarse = coarse
    fine = fine
    phone = phone
    stick = stick
    here = here
    blank = blank
    odd = odd
    Threegs = {coarse, fine}
    Modems = {phone, stick}
    Offers <- MCOffers
    Towers = {here, blank, odd}
    Anonymous = {blank}
    Unknown = {odd}
    None = None
INVARIANT UnusedModemGoesQuietly
CHECK_DEADLOCK FALSE
