-------------------------- MODULE AddressSpaceSpec --------------------------
(***************************************************************************)
(* What AddressSpace promises its callers (the doc comments of             *)
(* include/oscpm/address_space.h), with no table, index or memo: a space   *)
(* is the set of the addresses registered in it, and a visit hands the     *)
(* matching addresses to the visitor once each, in bytewise order.         *)
(*                                                                         *)
(* The program is sequential.  What interleaves is the visitor's own       *)
(* calls: `calls` is the stack of the visits that are open, the last one   *)
(* the innermost.  A visit is `busy` while its visitor runs, and only a    *)
(* busy innermost visit, or no visit at all, lets the program call a       *)
(* member function of a space.                                             *)
(***************************************************************************)
EXTENDS Integers, Sequences, FiniteSets

CONSTANTS
    Spaces,         \* the AddressSpace objects of the program
    NumAddresses,   \* addresses are numbered 1..NumAddresses in bytewise order
    OtherLiterals,  \* literal patterns that are not addresses ("/a/", "/a b")
    Wildcards,      \* well-formed patterns that are not literal
    Malformed,      \* texts that do not parse as a pattern
    Selects,        \* the addresses each wildcard pattern matches
    NoText          \* the text of a visit without a pattern

Address  == 1..NumAddresses
Literals == Address \cup OtherLiterals
Texts    == Literals \cup Wildcards \cup Malformed

VARIABLES
    registered,     \* the addresses each space holds
    calls           \* the open visits, innermost last

absVars == <<registered, calls>>

Visits == [space : Spaces, text : Texts \cup {NoText},
           pending : SUBSET Address, busy : BOOLEAN]

\* A space is a set of addresses, and an open visit what it has still to deliver.
TypeOK ==
    /\ registered \in [Spaces -> SUBSET Address]
    /\ calls \in Seq(Visits)

Idle == calls = <<>>
Inner == calls[Len(calls)]

\* The program is running code of its own, so it may call a member function.
ClientRuns == ~Idle => Inner.busy

Visiting(s) == \E i \in DOMAIN calls : calls[i].space = s

\* The addresses a pattern matches; a literal matches itself alone.
Matching(t) ==
    IF t \in Wildcards THEN Selects[t] ELSE {t} \cap Address

Init ==
    /\ registered = [s \in Spaces |-> {}]
    /\ calls = <<>>

Add(s, a) ==
    /\ ClientRuns /\ ~Visiting(s)
    /\ registered' = [registered EXCEPT ![s] = @ \cup {a}]
    /\ UNCHANGED calls

Remove(s, a) ==
    /\ ClientRuns /\ ~Visiting(s)
    /\ registered' = [registered EXCEPT ![s] = @ \ {a}]
    /\ UNCHANGED calls

Open(s, t, selected) ==
    /\ ClientRuns
    /\ calls' = Append(calls, [space   |-> s,
                               text    |-> t,
                               pending |-> selected \cap registered[s],
                               busy    |-> FALSE])
    /\ UNCHANGED registered

Visit(s, t) == t \notin Malformed /\ Open(s, t, Matching(t))

VisitAll(s) == Open(s, NoText, Address)

\* The visitor is called with the least address not yet delivered.
Deliver ==
    /\ ~Idle /\ ~Inner.busy
    /\ \E a \in Inner.pending :
          /\ \A b \in Inner.pending : a <= b
          /\ calls' = [calls EXCEPT ![Len(calls)] =
                          [Inner EXCEPT !.pending = Inner.pending \ {a},
                                        !.busy = TRUE]]
    /\ UNCHANGED registered

VisitorReturns ==
    /\ ~Idle /\ Inner.busy
    /\ calls' = [calls EXCEPT ![Len(calls)].busy = FALSE]
    /\ UNCHANGED registered

Close ==
    /\ calls' = SubSeq(calls, 1, Len(calls) - 1)
    /\ UNCHANGED registered

\* A visit returns only when every address it selected has been delivered.
Return == ~Idle /\ ~Inner.busy /\ Inner.pending = {} /\ Close

\* The visitor's exception leaves the visit and reaches its caller.
Throw == ~Idle /\ Inner.busy /\ Close

Copy(dst, src) ==
    /\ ClientRuns /\ ~Visiting(dst)
    /\ registered' = [registered EXCEPT ![dst] = registered[src]]
    /\ UNCHANGED calls

Move(dst, src) ==
    /\ ClientRuns /\ ~Visiting(dst) /\ ~Visiting(src) /\ dst # src
    /\ registered' = [registered EXCEPT ![dst] = registered[src], ![src] = {}]
    /\ UNCHANGED calls

Construct(s) ==
    /\ ClientRuns /\ ~Visiting(s)
    /\ registered' = [registered EXCEPT ![s] = {}]
    /\ UNCHANGED calls

Next ==
    \/ \E s \in Spaces, a \in Address : Add(s, a) \/ Remove(s, a)
    \/ \E s \in Spaces, t \in Texts : Visit(s, t)
    \/ \E s \in Spaces : VisitAll(s) \/ Construct(s)
    \/ \E dst, src \in Spaces : Copy(dst, src) \/ Move(dst, src)
    \/ Deliver \/ VisitorReturns \/ Return \/ Throw

Spec == Init /\ [][Next]_absVars
=============================================================================
