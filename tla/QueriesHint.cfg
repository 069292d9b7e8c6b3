\* The docstring of get_knowledge on hint: violated.
SPECIFICATION QSpec
CONSTANTS
    Entries = {i1, i2, i3}
    Readers = {r1}
    PageSize = 1
PROPERTY HintOnlyReorders
