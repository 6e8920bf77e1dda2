\* Status::to_string shows the messages the status was built from.
SPECIFICATION Spec
CONSTANTS
    Alphabet = {97, 98, 99, 255}
    MaxKeyLen = 2
    MaxLog = 30
INVARIANT StatusMessageReadsBack
