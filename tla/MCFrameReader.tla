--------------------------- MODULE MCFrameReader ---------------------------
(***************************************************************************)
(* FrameReader with the real header length, pieces of up to nine bytes and  *)
(* eight streams: empty, short and longest bodies, two and more frames in a *)
(* piece, a length and an id beyond MAX_LENGTH, a negative id and the       *)
(* lengths -1 and -2.                                                       *)
(***************************************************************************)
EXTENDS FrameReader

MCHeader == [msg_id : {-1, 1, 10}, msg_len : {-2, -1, 0, 1, 3, 9, 10}]

StreamOf(f) ==
  LET S[k \in 1 .. Len(f) + 1] ==
        IF k = 1 THEN 0 ELSE S[k - 1] + HEAD_TOTAL_LEN + BodyLen(f[k - 1])
  IN [frames |-> f, start |-> S]

H(id, len) == [msg_id |-> id, msg_len |-> len]

MCStreams == {StreamOf(f) : f \in
  { <<H(1, 0), H(1, 1), H(1, 3)>>,
    <<H(1, 3), H(1, 0), H(1, 0)>>,
    <<H(1, 9), H(1, 1)>>,
    <<H(1, 1), H(10, 1), H(1, 1)>>,
    <<H(1, 0), H(1, 10), H(1, 0)>>,
    <<H(-1, 1), H(1, 3)>>,
    <<H(1, 1), H(1, -1), H(1, 1)>>,
    <<H(1, 0), H(1, -2), H(1, 0)>> }}
=============================================================================
