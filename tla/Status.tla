------------------------------- MODULE Status -------------------------------
(***************************************************************************)
(* Status (src/src/util/status.rs).  An OK status has a null state; an    *)
(* error status owns the bytes                                             *)
(*   state[0..3] = message length (native u32, little-endian here)        *)
(*   state[4]    = code                                                    *)
(*   state[5..]  = message                                                 *)
(* A state is modelled as that byte sequence, or Null.  The codes are the *)
(* enum's u8 values.  to_string's result is a record: the prefix it picks *)
(* by code (a code, not its wording) and the message bytes it copies.     *)
(***************************************************************************)
EXTENDS Naturals, Sequences, Coding

Null == <<>>          \* a state always holds at least five bytes

(* enum Code and Code::try_from (every stored code is one of these).       *)
Ok == 0
NotFound == 1
Corruption == 2
NotSupported == 3
InvalidArgument == 4
IOError == 5
Codes == {NotFound, Corruption, NotSupported, InvalidArgument, IOError}

(* Status::new / Status::OK                                                *)
StatusOK == Null

(***************************************************************************)
(* from_code_msgs(code, msg, msg2): size is len1, plus 2 + len2 when msg2 *)
(* is not empty; the second copy reads len2 bytes from msg.data(), not    *)
(* msg2's.  Past msg's end that read is undefined: fill stands for the    *)
(* bytes found there.                                                      *)
(***************************************************************************)
FromCodeMsgs(code, msg, msg2, fill) ==
    LET len1 == Len(msg)
        len2 == Len(msg2)
        size == len1 + (IF len2 # 0 THEN 2 + len2 ELSE 0)
        second == [i \in 1..len2 |-> IF i <= len1 THEN msg[i] ELSE fill]
    IN EncodeFixed32(size) \o <<code>> \o msg
           \o (IF len2 # 0 THEN <<58, 32>> \o second ELSE <<>>)

(* The five error constructors.                                            *)
ErrorStatus(code, msg, msg2, fill) == FromCodeMsgs(code, msg, msg2, fill)

(* ok()                                                                    *)
IsOk(state) == state = Null

(* code(): byte 4 of the state, Ok for a null state.                       *)
StatusCode(state) == IF state = Null THEN Ok ELSE state[5]

(* is_not_found(), is_corruption(), ...: code() compared with one code.    *)
IsCode(state, code) == StatusCode(state) = code

(* Fault variant of CopyState: size + 4 bytes copied.                      *)
CopyStateShort(state) == SubSeq(state, 1, DecodeFixed32(state, 1) + 4)

(* copy_state: size + 5 bytes, the size read from the first word.          *)
CopyState(state) == SubSeq(state, 1, DecodeFixed32(state, 1) + 5)

(* Clone::clone                                                             *)
Clone(state) == IF state = Null THEN Null ELSE CopyState(state)

(* ToString::to_string: "ok" for a null state; else the prefix for code()  *)
(* followed by length bytes from state[5..].                               *)
StatusToString(state) ==
    IF state = Null THEN [prefix |-> "ok", text |-> <<>>]
    ELSE [prefix |-> StatusCode(state),
          text |-> SubSeq(state, 6, 5 + DecodeFixed32(state, 1))]

=============================================================================
