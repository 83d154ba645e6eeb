------------------------------ MODULE Corpus ------------------------------
(***************************************************************************)
(* The technique corpus the detector matches against, as                    *)
(* build_phishing_corpus.py generates it: every pretext with every brand it  *)
(* impersonates, by every evasion that suits how the pretext is delivered.   *)
(***************************************************************************)
EXTENDS Integers, Sequences, FiniteSets

\* Entries of LURES, in order: base severity, brands, and whether the pretext
\* is anchored on an attack by file.
Lure == [lure : STRING, brands : Seq(STRING), severity : Nat, byFile : BOOLEAN]

LinkEvasions == <<"lookalike_domain", "homoglyph", "subdomain_spoof", "url_shortener",
                  "open_redirect", "legit_hosting", "aitm_proxy", "qr_code",
                  "image_only_body", "display_name_spoof", "reply_to_mismatch", "new_domain">>
FileEvasions == <<"html_smuggling", "encrypted_archive", "nested_archive", "macro_document",
                  "double_extension", "unicode_rtl">>
CtxEvasions  == <<"thread_hijack", "compromised_sender">>

\* What an evasion adds to the severity of its pretext.
Modifier(evasion) ==
  CASE evasion = "url_shortener" -> 4
    [] evasion = "image_only_body" -> 5
    [] evasion \in {"lookalike_domain", "subdomain_spoof", "new_domain"} -> 6
    [] evasion \in {"open_redirect", "legit_hosting", "nested_archive",
                    "display_name_spoof", "reply_to_mismatch"} -> 7
    [] evasion \in {"qr_code", "unicode_rtl", "homoglyph"} -> 8
    [] evasion \in {"macro_document", "double_extension", "compromised_sender"} -> 9
    [] evasion \in {"html_smuggling", "encrypted_archive"} -> 10
    [] evasion = "thread_hijack" -> 11
    [] evasion = "aitm_proxy" -> 12

\* A pretext delivered as a file leaves out most evasions of a link.
Pool(l) == IF l.byFile THEN FileEvasions \o CtxEvasions \o SubSeq(LinkEvasions, 1, 4)
           ELSE LinkEvasions \o CtxEvasions

Severity(l, evasion) ==
  LET n == l.severity + Modifier(evasion)
  IN  IF n > 99 THEN 99 ELSE IF n < 30 THEN 30 ELSE n

\* Where a brand is listed under a pretext; one listed twice counts once.
BrandPlaces(l) ==
  {b \in DOMAIN l.brands : \A c \in 1..(b-1) : l.brands[c] # l.brands[b]}

\* The places <<pretext, brand, evasion>> of the entries.
Places(lures) ==
  UNION {{<<i, b, e>> : b \in BrandPlaces(lures[i]), e \in DOMAIN Pool(lures[i])} : i \in DOMAIN lures}

\* The order of generation, by which the entries are numbered.
Before(p, q) ==
  \/ p[1] < q[1]
  \/ p[1] = q[1] /\ (p[2] < q[2] \/ (p[2] = q[2] /\ p[3] < q[3]))
Number(lures, p) == Cardinality({q \in Places(lures) : ~Before(p, q)})

Entry(lures, p) ==
  [id |-> Number(lures, p),
   lure |-> lures[p[1]].lure, brand |-> lures[p[1]].brands[p[2]],
   evasion |-> Pool(lures[p[1]])[p[3]],
   severity |-> Severity(lures[p[1]], Pool(lures[p[1]])[p[3]])]
Build(lures) == {Entry(lures, p) : p \in Places(lures)}

=============================================================================
