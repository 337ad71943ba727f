--------------------------- MODULE AbstractEvent ---------------------------
(***************************************************************************)
(* What an event object promises: a set of flags, and clients that ask for *)
(* all or for some of a set of flags, to keep them or to consume them.     *)
(* Posting flags grants every request that can be granted: no two requests *)
(* consume the same flag, and a request left over cannot be met by the     *)
(* flags that are left.                                                    *)
(***************************************************************************)
EXTENDS Naturals, Sequences, FiniteSets

CONSTANTS Client, Flag

VARIABLES flags,
          phase  \* [Client -> <<"out">>, <<"asks", r>> with a request r,
                 \*            <<"got", flags>> or <<"refused">>]

Request == [want : SUBSET Flag, all : BOOLEAN, clear : BOOLEAN]

Init ==
    /\ flags = {}
    /\ phase = [c \in Client |-> <<"out">>]

Meets(r, s) == IF r.all THEN r.want \subseteq s ELSE r.want \cap s # {}

Asking(c) == phase[c][1] = "asks"

(* By a client whose request is met at once.                               *)
Receive ==
    \E r \in Request :
        /\ Meets(r, flags)
        /\ flags' = IF r.clear THEN flags \ r.want ELSE flags
        /\ UNCHANGED phase

Ask(c) ==
    /\ phase[c] = <<"out">>
    /\ \E r \in Request :
          ~Meets(r, flags) /\ phase' = [phase EXCEPT ![c] = <<"asks", r>>]
    /\ UNCHANGED flags

Post(posted) ==
    LET served  == {c \in Client : Asking(c) /\ phase'[c] # phase[c]}
        got(c)  == phase'[c][2]
        request(c) == phase[c][2]
        taken   == {c \in served : request(c).clear}
        pool    == flags \cup posted
    IN  /\ \A c \in Client \ served : phase'[c] = phase[c]
        /\ \A c \in served :
              /\ phase'[c][1] = "got"
              /\ got(c) \subseteq pool \cap request(c).want
              /\ Meets(request(c), got(c))
        /\ \A c, d \in taken : c # d => got(c) \cap got(d) = {}
        /\ flags' = pool \ UNION {got(c) : c \in taken}
        /\ \A c \in Client \ served : Asking(c) => ~Meets(request(c), flags')

Refuse(c) ==
    /\ Asking(c)
    /\ phase' = [phase EXCEPT ![c] = <<"refused">>]
    /\ UNCHANGED flags

Return(c) ==
    /\ phase[c][1] \in {"got", "refused"}
    /\ phase' = [phase EXCEPT ![c] = <<"out">>]
    /\ UNCHANGED flags

Clear == flags' = {} /\ UNCHANGED phase

Next ==
    \/ Receive \/ Clear
    \/ \E posted \in SUBSET Flag : Post(posted)
    \/ \E c \in Client : Ask(c) \/ Refuse(c) \/ Return(c)

Spec == Init /\ [][Next]_<<flags, phase>>
=============================================================================
