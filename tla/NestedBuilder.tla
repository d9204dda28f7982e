---------------------------- MODULE NestedBuilder ----------------------------
(***************************************************************************)
(* What a green-tree builder promises, without the flat child list, the    *)
(* cache or hashing: each thread's builder is a stack of open frames, each *)
(* holding the kind it will become and the children it has so far; the    *)
(* bottom frame is the document level.  Elements are plain values: a token *)
(* is its kind and text, a node its kind and children.                     *)
(*                                                                         *)
(* Operations that misuse the API abort the builder (status "panicked").   *)
(* ThreadedBuilder is shown to implement this specification.               *)
(***************************************************************************)
EXTENDS Integers, Sequences, SequencesExt

CONSTANTS
    Threads,     \* threads, each running one builder at a time
    Kinds,
    Texts,
    StaticText,
    NoStatic,
    NoText,      \* the text of a node
    MaxWrap,     \* bound on how many children start_node_at may claim
    StaticTextChecked \* a static-text kind given other text aborts

VARIABLES frames, astatus, aroots

avars == <<frames, astatus, aroots>>

RootFrame == [kind |-> NoText, kids |-> <<>>]

ATok(kind, text) ==
    [tag |-> "token", kind |-> kind, text |-> text, kids |-> <<>>]

ANode(kind, kids) ==
    [tag |-> "node", kind |-> kind, text |-> NoText, kids |-> kids]

Top(t) == Last(frames[t])

\* Replace the top frame's children.
SetTopKids(t, kids) ==
    frames' = [frames EXCEPT ![t][Len(frames[t])].kids = kids]

Building(t) == astatus[t] = "building"

Abort(t) ==
    /\ astatus' = [astatus EXCEPT ![t] = "panicked"]
    /\ UNCHANGED <<frames, aroots>>

Init ==
    /\ frames = [t \in Threads |-> <<RootFrame>>]
    /\ astatus = [t \in Threads |-> "building"]
    /\ aroots = [t \in Threads |-> <<>>]

\* A token joins the current frame.  A token of a kind with static text
\* carries exactly that text: other text aborts when StaticTextChecked, and
\* is replaced by the static text otherwise.
AddToken(t, kind, text) ==
    /\ Building(t)
    /\ IF StaticText[kind] = NoStatic
       THEN /\ SetTopKids(t, Append(Top(t).kids, ATok(kind, text)))
            /\ UNCHANGED <<astatus, aroots>>
       ELSE IF StaticTextChecked /\ text # StaticText[kind]
            THEN Abort(t)
            ELSE /\ SetTopKids(t, Append(Top(t).kids, ATok(kind, StaticText[kind])))
                 /\ UNCHANGED <<astatus, aroots>>

\* A token whose text is implied by its kind; other kinds abort.
AddStaticToken(t, kind) ==
    /\ Building(t)
    /\ IF StaticText[kind] = NoStatic
       THEN Abort(t)
       ELSE /\ SetTopKids(t, Append(Top(t).kids, ATok(kind, StaticText[kind])))
            /\ UNCHANGED <<astatus, aroots>>

OpenNode(t, kind) ==
    /\ Building(t)
    /\ frames' = [frames EXCEPT ![t] = Append(@, [kind |-> kind, kids |-> <<>>])]
    /\ UNCHANGED <<astatus, aroots>>

\* Open a node that claims the last n children of the current frame.
OpenNodeAround(t, n, kind) ==
    /\ Building(t)
    /\ IF n < 0 \/ n > Len(Top(t).kids)
       THEN Abort(t)
       ELSE LET kids == Top(t).kids
                keep == SubSeq(kids, 1, Len(kids) - n)
                moved == SubSeq(kids, Len(kids) - n + 1, Len(kids))
            IN  /\ frames' = [frames EXCEPT ![t] =
                       Append([@ EXCEPT ![Len(@)].kids = keep],
                              [kind |-> kind, kids |-> moved])]
                /\ UNCHANGED <<astatus, aroots>>

\* Close the current frame into a node appended to the enclosing frame.
CloseNode(t) ==
    /\ Building(t)
    /\ IF Len(frames[t]) = 1
       THEN Abort(t)
       ELSE LET rest == Front(frames[t])
                node == ANode(Top(t).kind, Top(t).kids)
            IN  /\ frames' = [frames EXCEPT ![t] =
                       [rest EXCEPT ![Len(rest)].kids = Append(@, node)]]
                /\ UNCHANGED <<astatus, aroots>>

RemoveLastChild(t) ==
    /\ Building(t)
    /\ IF Top(t).kids = <<>>
       THEN Abort(t)
       ELSE /\ SetTopKids(t, Front(Top(t).kids))
            /\ UNCHANGED <<astatus, aroots>>

\* The tree is done when the document level holds exactly one node.
Complete(t) ==
    /\ Building(t)
    /\ LET kids == frames[t][1].kids
       IN  IF Len(frames[t]) = 1 /\ Len(kids) = 1 /\ kids[1].tag = "node"
           THEN /\ aroots' = [aroots EXCEPT ![t] = Append(@, kids[1])]
                /\ astatus' = [astatus EXCEPT ![t] = "finished"]
                /\ frames' = [frames EXCEPT ![t] = <<RootFrame>>]
           ELSE Abort(t)

Restart(t) ==
    /\ astatus[t] = "finished"
    /\ astatus' = [astatus EXCEPT ![t] = "building"]
    /\ UNCHANGED <<frames, aroots>>

Next ==
    \E t \in Threads :
        \/ \E k \in Kinds, x \in Texts : AddToken(t, k, x)
        \/ \E k \in Kinds : AddStaticToken(t, k)
        \/ \E k \in Kinds : OpenNode(t, k)
        \/ \E k \in Kinds, n \in -MaxWrap..MaxWrap : OpenNodeAround(t, n, k)
        \/ CloseNode(t)
        \/ RemoveLastChild(t)
        \/ Complete(t)
        \/ Restart(t)

Spec == Init /\ [][Next]_avars

=============================================================================
