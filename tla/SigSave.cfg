SPECIFICATION SigSpec
CONSTANTS
    Names = {0, 1, 2}
    Payloads = {1, 2, 3, 4, 5, 6}
    MaxLength = 2
    Absent = Absent
    Wrap = 3
    ImageLength = 2
    MaxAttempts = 6
INVARIANTS SavedStays NumberedInOrder RecentStay
