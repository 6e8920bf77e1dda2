\* get_varint64 reading two consecutive values from one slice.
SPECIFICATION Spec
CONSTANTS
    Alphabet = {97, 98, 99, 255}
    MaxKeyLen = 2
    MaxLog = 30
INVARIANT Varint64StreamDecodes
