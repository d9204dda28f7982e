------------------------------ MODULE GreenTree ------------------------------
(***************************************************************************)
(* The tree element model of cstree's green trees, as the threaded         *)
(* builder (src/cstree/src/green/threaded_builder.rs) sees it: tokens and  *)
(* nodes are immutable values carrying an allocation id, so that "the same *)
(* shared instance" (the same Arc) is distinguishable from "an equal       *)
(* value".                                                                 *)
(*                                                                         *)
(* One record shape serves both variants of GreenElement (NodeOrToken):    *)
(*   tag      "token" or "node"                                            *)
(*   kind     RawSyntaxKind                                                *)
(*   text     interned TokenKey of a token, NoKey for static-text tokens   *)
(*            and for nodes (Option<TokenKey>)                             *)
(*   len      text_len (TextSize)                                          *)
(*   hash     child_hash of a node's GreenNodeHead, 0 for tokens           *)
(*   children the node's children, <<>> for tokens                         *)
(*   id       identity of the heap allocation                              *)
(***************************************************************************)
EXTENDS Naturals, Sequences, SequencesExt, Bitwise

CONSTANTS
    Kinds,       \* raw syntax kinds (naturals) used in the model
    Texts,       \* token texts the parser may hand to the builder
    TextLen,     \* byte length of each text, [Texts -> Nat]
    StaticText,  \* Syntax::static_text, [Kinds -> Texts \cup {NoStatic}]
    NoStatic,    \* static_text(kind) = None
    HashBits,    \* width of the modelled FxHasher32 state (32 in the code)
    LenBits      \* width of the modelled TextSize (u32 in the code)

ASSUME Kinds \subseteq Nat
ASSUME TextLen \in [Texts -> Nat]
ASSUME StaticText \in [Kinds -> Texts \cup {NoStatic}]
ASSUME HashBits \in 6..15
ASSUME LenBits \in 1..16

\* Option<TokenKey>::None; interner keys start at 1.
NoKey == 0

HashMod == 2^HashBits

IsStatic(kind) == StaticText[kind] # NoStatic

-----------------------------------------------------------------------------
(* TextSize arithmetic on a LenBits-wide word.                             *)

LenMod == 2^LenBits

\* `len as u32`: a byte length converted to TextSize keeps its low bits.
AsU32(n) == n % LenMod

\* The value of `a + b` on TextSize: the u32 sum wraps.  Whether the add
\* also panics (overflow checks, on exactly when debug assertions are) is
\* up to the caller, through TextSizeOverflows.
TextSizeAdd(a, b) == (a + b) % LenMod

TextSizeSub(a, b) == (a - b) % LenMod

\* Mutation: the add is never checked (`wrapping_add`, or a release
\* profile), so a sum past the width silently wraps.
TextSizeOverflowsUnchecked(a, b) == FALSE

TextSizeOverflows(a, b) == a + b >= LenMod

-----------------------------------------------------------------------------
(* Constructors of the two variants.                                       *)

MkToken(kind, key, len, id) ==
    [tag |-> "token", kind |-> kind, text |-> key, len |-> len,
     hash |-> 0, children |-> <<>>, id |-> id]

MkNode(kind, len, hash, kids, id) ==
    [tag |-> "node", kind |-> kind, text |-> NoKey, len |-> len,
     hash |-> hash, children |-> kids, id |-> id]

IsNode(e) == e.tag = "node"

\* Two elements equal in every respect but the allocation they live in.
SameContent(a, b) == [a EXCEPT !.id = 0] = [b EXCEPT !.id = 0]

-----------------------------------------------------------------------------
(* Content fingerprint of a child list: ThreadedNodeCache::node computes   *)
(* the text length and an FxHasher32 hash over the direct children only.   *)

\* FxHasher32::write of one word: rotate_left(5), xor, wrapping_mul(SEED),
\* in a HashBits-wide state instead of a 32-bit one.
\* SEED32 = 0x9e3779b9; modulo 2^HashBits (HashBits <= 16) only its low
\* half-word 0x79b9 counts.
FxSeed == 31161 % HashMod

Rotl5(h) == ((h * 32) % HashMod) + (h \div (HashMod \div 32))

FxWrite(h, w) == ((Rotl5(h) ^^ (w % HashMod)) * FxSeed) % HashMod

\* The words `child.hash(&mut hasher)` feeds the hasher: the NodeOrToken
\* discriminant, then GreenNodeHead (kind, text_len, child_hash) or
\* GreenTokenData (kind, text, text_len).
ElemWords(e) ==
    IF IsNode(e) THEN <<1, e.kind, e.len, e.hash>>
                 ELSE <<0, e.kind, e.text, e.len>>

\* `for child in &all_children[offset..] { text_len += ..; child.hash(..) }`
ChildrenLen(kids) == FoldLeft(LAMBDA acc, e : TextSizeAdd(acc, e.len), 0, kids)

\* FxHasher32::write of each word in turn.  The range test on h makes TLC
\* evaluate the hasher state at every word rather than defer one nested
\* expression per word.
RECURSIVE FxWriteAll(_, _)
FxWriteAll(h, ws) ==
    IF h \notin 0..HashMod - 1 \/ ws = <<>> THEN h
    ELSE FxWriteAll(FxWrite(h, Head(ws)), Tail(ws))

ChildrenHash(kids) ==
    FxWriteAll(0, FlattenSeq([i \in DOMAIN kids |-> ElemWords(kids[i])]))

-----------------------------------------------------------------------------
(* Every element reachable from a set of roots, descendants included.      *)

RECURSIVE Subtree(_)
Subtree(e) == {e} \cup UNION {Subtree(c) : c \in ToSet(e.children)}

Reachable(roots) == UNION {Subtree(r) : r \in roots}

=============================================================================
