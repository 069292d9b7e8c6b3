\* One reader walks listings of up to three entries, one to a page, while other
\* servers write, trash, restore and purge.
SPECIFICATION QSpec
CONSTANTS
    Entries = {i1, i2, i3}
    Readers = {r1}
    PageSize = 1
SYMMETRY Symmetry
INVARIANT QTypeOK WalkMissesNothing WalkRepeatsNothing ReadsTrackReturned
