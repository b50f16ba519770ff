----------------------------- MODULE Destination -----------------------------
(* What a client is told to connect to: an address, or a DNS name with the  *)
(* address in a TXT record (address_resolver.cpp).  A call that throws has  *)
(* the empty set of results.                                                *)
EXTENDS CommandLine

Labels(name) == Split(name, ".")
IsAddress(label) == label \in {<<a>> : a \in Addresses}

(* Mutant: the label behind the last dot is not looked at.                  *)
ClassifyAllButLast(name) ==
  CASE IsAddress(name) -> {[address |-> name, via_dns |-> FALSE]}
    [] OTHER -> IF \/ Find(name, ".") = 0
                   \/ \E i \in 1..(Len(Labels(name)) - 1) :
                        IsAddress(Labels(name)[i])
                THEN {} ELSE {[address |-> <<>>, via_dns |-> TRUE]}

(* classify_tailcat_address_argument(): what has no dot must be an address, *)
(* and what has dots must have none between them.                           *)
Classify(name) ==
  CASE IsAddress(name) -> {[address |-> name, via_dns |-> FALSE]}
    [] OTHER -> IF \/ Find(name, ".") = 0
                   \/ \E i \in DOMAIN Labels(name) : IsAddress(Labels(name)[i])
                THEN {} ELSE {[address |-> <<>>, via_dns |-> TRUE]}

(* query_txt_records(): of the answers, those of type TXT, the strings of   *)
(* each joined: a long address comes in several.                            *)
TxtRecords(answers) ==
  LET texts == SelectSeq(answers, LAMBDA a : a.type = "TXT")
  IN [i \in DOMAIN texts |-> FlattenSeq(texts[i].strings)]

(* tailcat_address_from_txt(), record by record: selected is empty as long  *)
(* as there is none, and nothing is left once a record has been refused.    *)
AddressFromTxt(records) ==
  LET Next(found, record) ==
        IF ~Prefixed(record, "tailcat=") THEN found
        ELSE {Tail(record) : s \in
                {t \in found : IsAddress(Tail(record)) /\ t \in {<<>>, Tail(record)}}}
  IN FoldLeft(Next, {<<>>}, records) \ {<<>>}

(* resolve_tailcat_address_argument(), with the answers to its query.       *)
ResolveTailcatAddress(name, answers) ==
  UNION {IF c.via_dns
         THEN {[c EXCEPT !.address = a] : a \in AddressFromTxt(TxtRecords(answers))}
         ELSE {c} : c \in Classify(name)}
=============================================================================
