--------------------------- MODULE VendorMatching ---------------------------
(***************************************************************************)
(* The vendor name normaliser: a name as an invoice writes it, matched     *)
(* with the organization's vendor master.  A name is the sequence of its   *)
(* lower-case words without punctuation; a name that is only punctuation   *)
(* is <<>>, no name at all is None.  The likeness of two names that are    *)
(* not equal is the library's (rapidfuzz): any symmetric function.         *)
(***************************************************************************)
EXTENDS Integers, Sequences, FiniteSets

CONSTANTS
    None,       \* an optional field that is absent
    Names,      \* the names in use
    LegalSuffixes, \* the legal suffixes: "ltd", "inc", ...
    Likeness,   \* the likeness in percent of two normalised names
    Threshold   \* the least likeness of names that count as one

\* A legal suffix does not tell two companies apart, unless it is the name.
Normal(name) ==
    LET kept == SelectSeq(name, LAMBDA word : word \notin LegalSuffixes)
    IN  IF kept = <<>> THEN name ELSE kept

NormalNames == {Normal(name) : name \in Names}

ASSUME LikenessAssumption ==
    /\ Likeness \in [NormalNames \X NormalNames -> 0..100]
    /\ \A a, b \in NormalNames : Likeness[<<a, b>>] = Likeness[<<b, a>>]
    /\ Threshold \in 0..100
    /\ None \notin Names

-----------------------------------------------------------------------------
(* A vendor of the master is [name |-> its canonical name, aliases |-> ...] *)

Largest(S) == CHOOSE n \in S : \A m \in S : m <= n

Match(raw, vendor) ==
    LET alike == {Likeness[<<Normal(raw), Normal(name)>>] :
                    name \in {vendor.name} \cup vendor.aliases}
    IN  IF Normal(vendor.name) = Normal(raw)
        THEN [vendor |-> vendor, type |-> "exact", score |-> 100]
        ELSE IF \E alias \in vendor.aliases : Normal(alias) = Normal(raw)
        THEN [vendor |-> vendor, type |-> "alias", score |-> 100]
        ELSE [vendor |-> vendor, type |-> "fuzzy", score |-> Largest(alike)]

TypeRank == [exact |-> 2, alias |-> 1, fuzzy |-> 0]
RanksBelow(m, n) ==
    \/ TypeRank[m.type] < TypeRank[n.type]
    \/ TypeRank[m.type] = TypeRank[n.type] /\ m.score < n.score

\* The vendors a name may resolve to: the master is read in no stated order,
\* so among equally good matches any may come first.
Resolved(raw, master) ==
    LET matches == {Match(raw, vendor) : vendor \in master}
    IN  {m \in matches : /\ m.type # "fuzzy" \/ m.score >= Threshold
                         /\ \A n \in matches : ~RanksBelow(m, n)}
=============================================================================
