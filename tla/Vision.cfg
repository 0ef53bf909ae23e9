\* Two invocations of watch.sh at a time, two monitors, two queries; the decoder on
\* every image of up to nine by three pixels.
SPECIFICATION MCSpec
CONSTANTS
    None = None
    parcel = parcel
    cup = cup
    s1 = s1
    s2 = s2
    m1 = m1
    m2 = m2
    MinScore = 2
    Queries = {parcel, cup}
    Shells = {s1, s2}
    Monitors = {m1, m2}
    Replies <- MCReplies
    HitConfirmations = 2
    MissClearCount = 1
    Cooldown = 1
    MaxSilence = 2
    Unset = Unset
    Widths <- MCWidths
    Heights <- MCHeights
    Strides <- MCStrides
    Sizes <- MCSizes
    Levels <- MCLevels
SYMMETRY Symmetric
INVARIANTS
    TypeOK
    OneMonitor
    DecisionSaved
    ReminderConfident
    SamplesInPlace
    ColoursRight
PROPERTIES
    InViewDecided
    RemindersSpaced
\* When the bound on monitors is reached the last one may be dead.
CHECK_DEADLOCK FALSE
