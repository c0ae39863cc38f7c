----------------------------- MODULE AuthToken ------------------------------
(***************************************************************************)
(* The shared secret (crates/common/src/auth.rs): how both ends resolve it *)
(* and how it travels, as one pkt-line in front of the raw stream that     *)
(* `git receive-pack` is given.                                            *)
(*                                                                         *)
(* The 22 bytes of AUTH_PKT_PREFIX are one symbol, and MaxTokenLen stands  *)
(* for MAX_TOKEN_LEN.                                                      *)
(***************************************************************************)
EXTENDS PktLine

CONSTANT MaxTokenLen   \* longest secret that is carried

\* 4096 in the code.  The pkt-line it travels in, with the prefix and the
\* newline, has a length of four hex digits.
ASSUME AuthAssumption == MaxTokenLen \in Nat \ {0} /\ MaxTokenLen <= 65508

Newline == 21
Blank   == 22          \* any other whitespace
AuthPktPrefix == <<23>>
Control == 27          \* a control character that is no whitespace

Whitespace  == {Newline, Blank}
Unprintable == Whitespace \cup {Control}

\* str::trim
Trim(value) ==
    LET kept == {i \in DOMAIN value : value[i] \notin Whitespace}
        first == CHOOSE i \in kept : \A j \in kept : i <= j
        last  == CHOOSE i \in kept : \A j \in kept : j <= i
    IN  IF kept = {} THEN <<>> ELSE SubSeq(value, first, last)

Secret(value)  == [is |-> "token", value |-> value]
AuthError(why) == [is |-> "error", value |-> why]
NoSecret       == [is |-> "none"]

\* Token::new
NewToken(value) ==
    LET token == Trim(value)
    IN  IF token = <<>> THEN AuthError("Empty")
        ELSE IF Len(token) > MaxTokenLen THEN AuthError("TooLong")
        ELSE IF \E i \in DOMAIN token : token[i] \in Unprintable
             THEN AuthError("NotPrintable")
        ELSE Secret(token)

\* A file or a variable that is not there.
Unset == <<24>>

\* Token::resolve: --token-file, else a non-blank GIT_FULL_SEND_TOKEN.
\* `file` is Unset when the flag is not given.
Resolve(file, env) ==
    CASE file # Unset                                 -> NewToken(file)
      [] file = Unset /\ env # Unset /\ Trim(env) # <<>> -> NewToken(env)
      [] OTHER                                        -> NoSecret

\* listen_auth (crates/cli/src/main.rs): anonymous only when told so.
ListenAuth(file, env, allow_anonymous) ==
    IF allow_anonymous THEN [is |-> "anonymous"]
    ELSE IF Resolve(file, env) = NoSecret THEN AuthError("Undecided")
    ELSE Resolve(file, env)

-----------------------------------------------------------------------------
Framed(payload) ==
    LET len == Len(payload) + 4
    IN  <<len \div 4096, (len \div 256) % 16, (len \div 16) % 16, len % 16>>
           \o payload

AuthPkt(token) == Framed(AuthPktPrefix \o token \o <<Newline>>)

\* Mutant: forgets that the length of a pkt-line includes its header.
AuthPktFitsTight(len) ==
    len \in 5..(Len(AuthPktPrefix) + MaxTokenLen + 4)

AuthPktFits(len) ==
    len \in 5..(Len(AuthPktPrefix) + MaxTokenLen + 6)

\* read_auth_pkt, for what the client sends before it closes or the deadline
\* passes: the outcome and the bytes left for receive-pack.
ReadAuthPkt(stream, expected) ==
    LET n == Len(stream)
        len == ParseLength(SubSeq(stream, 1, 4))
        payload == SubSeq(stream, 5, len)
        body == SubSeq(payload, Len(AuthPktPrefix) + 1, Len(payload))
        presented == IF body # <<>> /\ Last(body) = Newline THEN Front(body)
                     ELSE body
        Left(outcome, used) ==
            [outcome |-> outcome, rest |-> SubSeq(stream, used + 1, n)]
    IN  IF n < 4 THEN Left("Absent", n)
        ELSE IF len = NoLength \/ ~AuthPktFits(len) THEN Left("Malformed", 4)
        ELSE IF n < len THEN Left("Malformed", n)
        ELSE IF ~IsPrefix(AuthPktPrefix, payload) THEN Left("Malformed", len)
        ELSE IF presented = expected THEN Left("Ok", len)
        ELSE Left("Mismatch", len)
=============================================================================
