------------------------------- MODULE Digest -------------------------------
(***************************************************************************)
(* The digest challenge of a registrar (src/internal/sip/digest.go):       *)
(* splitDigestParameters, unquoteDigestValue, ParseDigestChallenge and     *)
(* selectDigestQOP.  A text is a sequence of characters; the hashes are    *)
(* left out, and of the escapes strconv.Unquote knows only those           *)
(* escapeDigestValue makes.                                                *)
(***************************************************************************)
EXTENDS Integers, Sequences, SequencesExt

Quote == "quote"
Backslash == "backslash"
Space == " "
Comma == ","
Nil == "nil"

\* Mutant: a backslash has no meaning.
InsideUnescaped(text) ==
  [i \in DOMAIN text |->
     Len(SelectSeq(SubSeq(text, 1, i - 1), LAMBDA c : c = Quote)) % 2 = 1]

\* Per place of a text, whether it is inside a quoted string, as the loop of
\* splitDigestParameters sees it; an escaped character is.
Inside(text) ==
  LET Scan[i \in 0 .. Len(text)] ==
        IF i = 0 THEN [quoted |-> FALSE, escaped |-> FALSE]
        ELSE LET before == Scan[i - 1]
             IN IF before.escaped THEN [before EXCEPT !.escaped = FALSE]
                ELSE IF text[i] = Backslash /\ before.quoted THEN [before EXCEPT !.escaped = TRUE]
                ELSE IF text[i] = Quote THEN [before EXCEPT !.quoted = ~ @]
                ELSE before
  IN [i \in DOMAIN text |-> Scan[i - 1].quoted]

\* What is left of a text without the characters c at its ends
Trimmed(text, c) ==
  LET solid == {i \in DOMAIN text : text[i] # c}
  IN IF solid = {} THEN <<>>
     ELSE SubSeq(text, CHOOSE i \in solid : \A j \in solid : i <= j,
                       CHOOSE i \in solid : \A j \in solid : i >= j)
TrimSpace(text) == Trimmed(text, Space)

\* splitDigestParameters
SplitDigestParameters(text) ==
  LET inside == Inside(text)
      cuts == <<0>> \o SelectSeq([i \in DOMAIN text |-> i],
                                 LAMBDA i : text[i] = Comma /\ ~ inside[i])
                    \o <<Len(text) + 1>>
  IN [k \in 1 .. Len(cuts) - 1 |-> TrimSpace(SubSeq(text, cuts[k] + 1, cuts[k + 1] - 1))]

\* strconv.Unquote of what is between two quotes, one character at a time
UnquoteChar(read, c) ==
  IF read.escaped
  THEN [text |-> Append(read.text, c), escaped |-> FALSE,
        ok |-> read.ok /\ c \in {Quote, Backslash}]
  ELSE IF c = Backslash THEN [read EXCEPT !.escaped = TRUE]
  ELSE [read EXCEPT !.text = Append(@, c), !.ok = @ /\ c # Quote]

\* unquoteDigestValue
UnquoteDigestValue(text) ==
  LET value == TrimSpace(text)
      read == FoldLeft(UnquoteChar, [text |-> <<>>, escaped |-> FALSE, ok |-> TRUE],
                       SubSeq(value, 2, Len(value) - 1))
  IN IF /\ Len(value) >= 2 /\ value[1] = Quote /\ Last(value) = Quote
        /\ read.ok /\ ~ read.escaped
     THEN read.text ELSE Trimmed(value, Quote)

\* ParseDigestChallenge after the scheme: the value of a parameter, the last
\* one of this name if there are more.
Parameter(text, name) ==
  LET named == SelectSeq(SplitDigestParameters(text),
                         LAMBDA p : Len(p) >= 2 /\ p[1] = name /\ p[2] = "=")
  IN IF named = <<>> THEN <<>>
     ELSE UnquoteDigestValue(SubSeq(Last(named), 3, Len(Last(named))))

\* strings.Split of the qop parameter
QOPs(value) ==
  LET cuts == <<0>> \o SelectSeq([i \in DOMAIN value |-> i], LAMBDA i : value[i] = Comma)
                    \o <<Len(value) + 1>>
      all == [k \in 1 .. Len(cuts) - 1 |-> TrimSpace(SubSeq(value, cuts[k] + 1, cuts[k + 1] - 1))]
  IN SelectSeq(all, LAMBDA q : q # <<>>)

\* ParseDigestChallenge: an error without a realm or a nonce
Error == [error |-> TRUE]

ParseDigestChallenge(text) ==
  IF Parameter(text, "realm") = <<>> \/ Parameter(text, "nonce") = <<>> THEN Error
  ELSE [error |-> FALSE, realm |-> Parameter(text, "realm"), nonce |-> Parameter(text, "nonce"),
        qop |-> QOPs(Parameter(text, "qop"))]

\* selectDigestQOP; an error of BuildDigestAuthorization is Nil
SelectDigestQOP(qops) ==
  IF Contains(qops, <<"auth">>) THEN "auth"
  ELSE IF Contains(qops, <<"auth-int">>) THEN "auth-int"
  ELSE IF qops = <<>> THEN "none" ELSE Nil

----------------------------------------------------------------------------

\* escapeDigestValue between quotes
Quoted(value) ==
  <<Quote>>
    \o FlattenSeq([i \in DOMAIN value |->
         IF value[i] \in {Quote, Backslash} THEN <<Backslash, value[i]>> ELSE <<value[i]>>])
    \o <<Quote>>

\* splitDigestParameters, unquoteDigestValue: the challenge comes back as it
\* was written, whatever quotes, backslashes and commas are in its values, and
\* a protection the registrar has offered is chosen, the plain one first.
ChallengeRead(realm, nonce, qops) ==
  LET Listed == FoldLeft(LAMBDA all, q : IF all = <<>> THEN <<q>> ELSE all \o <<Comma, Space, q>>,
                         <<>>, qops)
      text == <<"realm", "=">> \o Quoted(realm) \o <<Comma, Space, "nonce", "=">> \o Quoted(nonce)
                \o <<Comma, "qop", "=">> \o Quoted(Listed)
      challenge == ParseDigestChallenge(text)
  IN IF realm = <<>> \/ nonce = <<>> THEN challenge = Error
     ELSE /\ ~ challenge.error
          /\ challenge.realm = realm /\ challenge.nonce = nonce
          /\ challenge.qop = [k \in DOMAIN qops |-> <<qops[k]>>]
          /\ LET chosen == SelectDigestQOP(challenge.qop)
             IN \/ chosen \in {"auth", "auth-int"} /\ Contains(qops, chosen)
                \/ chosen = "none" /\ qops = <<>>
                \/ chosen = Nil /\ ~ Contains(qops, "auth") /\ ~ Contains(qops, "auth-int")
=============================================================================
