------------------------------ MODULE PhysMem ------------------------------
(***************************************************************************)
(* The physical page allocator of AcessOS/mm2.c.                           *)
(*                                                                         *)
(* Page f is bit f % W of word f \div W of pageBitmap; word w has bit      *)
(* w % W of word w \div W of superpageBitmap, which says that a search may *)
(* skip it.  W is 32 in the code.  Each of the three functions runs with   *)
(* interrupts off and is one step of its caller: Grab, GrabRun and Free are*)
(* the parts of such a step that change the bitmaps.                       *)
(***************************************************************************)
EXTENDS Integers, FiniteSets

CONSTANTS
    W,              \* bits in a word
    Total,          \* mm_TotalPages
    Reserved        \* mm_ReservedPages: kernel image, bitmaps and first stack

ASSUME PhysConstants ==
    /\ W \in Nat \ {0}
    /\ Total \in Nat /\ Total >= W * W
    /\ Reserved \in 1 .. Total - 1

VARIABLES
    bits,           \* pageBitmap: the pages whose bit is set
    supers,         \* superpageBitmap: the words whose bit is set
    used,           \* mm_UsedPhysPages
    given,          \* given[f]: grants of page f that have not been given back
    state           \* "hang": a search with interrupts off that never ends

physVars == <<bits, supers, used, given, state>>

Pages == 0 .. Total - 1
Words == 0 .. (Total - 1) \div W
SuperCount == Total \div (W * W)
PagesOf(w) == w * W .. w * W + W - 1
WordsOf(a) == a * W .. a * W + W - 1
First(S) == CHOOSE x \in S : \A y \in S : x <= y

(* memmanager_install(): "Mark Used Pages".                                *)
PhysInit ==
    /\ bits = 0 .. Reserved - 1
    /\ supers = 0 .. Reserved \div W - 1
    /\ used = Reserved
    /\ given = [f \in Pages |-> 0]
    /\ state = "runs"

(* The three scans: a word of superpages that is not full, a word of pages *)
(* its bit says nothing of, a page.                                        *)
Open == {a \in 0 .. SuperCount - 1 : ~ WordsOf(a) \subseteq supers}
OpenWord == First(WordsOf(First(Open)) \ supers)
OpenPages == PagesOf(OpenWord) \ bits

(* A word is marked when its last page is taken.                           *)
Full(S) == supers \cup {w \in {f \div W : f \in S} : PagesOf(w) \subseteq bits \cup S}

(* The count is not kept.                                                  *)
MarkUncounted(S, count) ==
    /\ state = "runs"
    /\ bits' = bits \cup S
    /\ supers' = Full(S)
    /\ given' = [f \in Pages |-> given[f] + IF f \in S THEN 1 ELSE 0]
    /\ UNCHANGED <<used, state>>

Mark(S, count) ==
    /\ state = "runs"
    /\ bits' = bits \cup S
    /\ supers' = Full(S)
    /\ used' = used + count
    /\ given' = [f \in Pages |-> given[f] + IF f \in S THEN 1 ELSE 0]
    /\ UNCHANGED state

(* MM_AllocPhys()                                                          *)
Grab(f) ==
    /\ used # Total
    /\ Open # {}
    /\ OpenPages # {}
    /\ f = First(OpenPages)
    /\ Mark({f}, 1)

(* "Out of memory": the kernel halts, free pages in marked words or not.   *)
NoPage == used = Total \/ Open = {}

(* MM_AllocPhysCont(): counts as one page, however many they are.          *)
Run(f, n) == f .. f + n - 1
GrabRun(f, n) ==
    /\ Open # {}
    /\ OpenPages # {}
    /\ f = First(OpenPages)
    /\ Run(f, n) \subseteq Pages \ bits
    /\ Mark(Run(f, n), 1)

(* If one of them is taken the search starts again, at the same page; or   *)
(* in a marked word there is no page to start from.                        *)
Spins(n) == Open # {} /\ (OpenPages = {} \/ Run(First(OpenPages), n) \cap bits # {})

Stop(how) ==
    /\ state = "runs"
    /\ state' = how
    /\ UNCHANGED <<bits, supers, used, given>>

(* Words that are marked stay so.                                          *)
NeverEmptied(S) == supers

(* "if(pageBitmap[a*32+b] == 0)": the word comes back into the search when *)
(* the last of its pages is free, not the first.                           *)
Emptied(S) == supers \ {w \in {f \div W : f \in S} : PagesOf(w) \cap (bits \ S) = {}}

(* freephys(), of each page of S.                                          *)
Free(S) ==
    /\ state = "runs"
    /\ bits' = bits \ S
    /\ supers' = Emptied(S)
    /\ used' = used - Cardinality(S)
    /\ given' = [f \in Pages |-> given[f] - IF f \in S THEN 1 ELSE 0]
    /\ UNCHANGED state

-----------------------------------------------------------------------------
PhysTypeOK ==
    /\ bits \subseteq Pages
    /\ supers \subseteq Words
    /\ used \in 0 .. Total
    /\ given \in [Pages -> Nat]
    /\ state \in {"runs", "hang", "panic"}

(* A page that was given out, or that the kernel was loaded into, has its  *)
(* bit set, and is given to nobody else before it is given back.           *)
GrantedOnce ==
    /\ \A f \in Pages : given[f] <= 1
    /\ \A f \in Pages : given[f] = 1 => f \in bits /\ f >= Reserved
    /\ 0 .. Reserved - 1 \subseteq bits

(* A word that is searched has a free page, so the scan for one ends in it;*)
(* a word that is skipped has a page in use, so that it is searched again  *)
(* once its owners have given back what they have.                         *)
SearchSound ==
    \A w \in 0 .. SuperCount * W - 1 :
        IF w \in supers THEN PagesOf(w) \cap bits # {} ELSE ~ PagesOf(w) \subseteq bits

(* Two callers never get the same page, whatever is taken and given back in*)
(* between; the two bitmaps agree, and the count never stops an allocation *)
(* they could serve.                                                       *)
PagesSound == GrantedOnce /\ SearchSound /\ used <= Cardinality(bits)
=============================================================================
