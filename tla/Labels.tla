------------------------------- MODULE Labels -------------------------------
(***************************************************************************)
(* How run.py turns what the vector store and the language model say into  *)
(* the label it prints for a file: the Category values, early_stop, the    *)
(* regular expressions over the model's answer, and the spelling fix-up of *)
(* scan_folder.                                                            *)
(*                                                                         *)
(* A text is a sequence of fragments, cut where a category name may begin  *)
(* or end: "USES_AES" is <<"USES_", "AES">>, and the regular expression    *)
(* AES finds it at fragment 2.  A match of one of the program's patterns   *)
(* always starts and ends at a cut, so concatenation, stripping and        *)
(* leftmost search mean on fragments what they mean on characters.         *)
(***************************************************************************)
EXTENDS Naturals, Sequences

None == <<"the object None">>    \* Python's None, which equals no text

\* [cat.value for cat in Category] + ["bcrypt"], in the order of the enum.
POSSIBLE_CATEGORIES == <<
  <<"hashing">>, <<"RSA">>, <<"DiffieHellman">>, <<"DSA">>,
  <<"ElipticCurves">>, <<"ED448">>, <<"ED25519">>, <<"AES">>,
  <<"Camellia">>, <<"ChaCha">>, <<"DES">>, <<"HMAC">>, <<"MD5">>, <<"SHA">>,
  <<"NOCRYPTO">>, <<"USES_", "AES">>,
  <<"PASSWORD_", "PBKDF2_", "SHA", "256">>, <<"PASSWORD_", "BCRYPT">>,
  <<"bcrypt">> >>

\* The alternatives of the second regular expression, which has no group.
SHA_SPELLINGS == <<
  <<"SHA", "-256">>, <<"SHA", "256">>, <<"SHA", "-1">>, <<"SHA", "1">>,
  <<"SHA", "-512">>, <<"SHA", "512">>, <<"SHA", "-3">>, <<"SHA", "3">> >>

\* The labels the prompt of get_true_category_v2_codellama allows.
PromptLabels == {
  <<"USES_", "AES">>, <<"PASSWORD_", "PBKDF2_", "SHA", "256">>,
  <<"PASSWORD_", "BCRYPT">>, <<"RSA">>, <<"DiffieHellman">>, <<"DSA">>,
  <<"ElipticCurves">>, <<"ED448">>, <<"ED25519">>, <<"AES">>,
  <<"CAMELLIA">>, <<"CHACHA20">>, <<"DES">>, <<"HMAC">>, <<"MD5">>,
  <<"SHA">>, <<"NO_CRYPTO">> }

-----------------------------------------------------------------------------
(* str.strip: drop the blanks at both ends. *)
Strip(text) ==
  LET ink == {i \in DOMAIN text : text[i] # " "}
  IN  IF ink = {} THEN <<>>
      ELSE SubSeq(text, CHOOSE i \in ink : \A j \in ink : i <= j,
                        CHOOSE i \in ink : \A j \in ink : j <= i)

OccursAt(pattern, text, i) ==
  /\ i + Len(pattern) <= Len(text) + 1
  /\ \A j \in DOMAIN pattern : text[i + j - 1] = pattern[j]

(* Where the alternatives occur in the text: <<position, alternative>>. *)
Occurrences(alternatives, text) ==
  {h \in (DOMAIN text) \X (DOMAIN alternatives) :
     OccursAt(alternatives[h[2]], text, h[1])}

Precedes(g, h) == g[1] < h[1] \/ (g[1] = h[1] /\ g[2] <= h[2])

\* A search that tries the alternatives one after the other over the whole
\* text instead of trying them all at each position.
SearchByAlternative(alternatives, text) ==
  LET hits == Occurrences(alternatives, text)
      First(h) == \A g \in hits : h[2] <= g[2]
  IN  IF \E h \in hits : First(h)
      THEN alternatives[(CHOOSE h \in hits : First(h))[2]]
      ELSE None

(* regex.search: the leftmost match and, there, the first alternative. *)
Search(alternatives, text) ==
  LET hits == Occurrences(alternatives, text)
      First(h) == \A g \in hits : Precedes(h, g)
  IN  IF \E h \in hits : First(h)
      THEN alternatives[(CHOOSE h \in hits : First(h))[2]]
      ELSE None

IndexError == <<"IndexError: no such group">>   \* the exception, as a text

(***************************************************************************)
(* What get_true_category_v2_codellama makes of the model's answer: the    *)
(* first expression's match behind "LLM ", else group(1) of an expression  *)
(* without groups, else the answer as it came.                             *)
(***************************************************************************)
Verdict(answer) ==
  LET text  == Strip(answer)
      match == Search(POSSIBLE_CATEGORIES, text)
  IN  IF match # None THEN <<"LLM ">> \o match
      ELSE IF Search(SHA_SPELLINGS, text) # None THEN IndexError
      ELSE text

-----------------------------------------------------------------------------
\* early_stop takes whatever neighbour comes first.
early_stop_first(categories) ==
  IF categories = {} THEN None ELSE CHOOSE c \in categories : TRUE

(***************************************************************************)
(* early_stop on set(categories): the one category there is, or None, both *)
(* for four different ones and for any other number.                       *)
(***************************************************************************)
early_stop(categories) ==
  IF \E c \in categories : categories = {c}
  THEN CHOOSE c \in categories : TRUE
  ELSE None

(* The last rewriting of scan_folder before it yields. *)
Normalise(category) ==
  IF category = <<"ELLIPTIC_CURVES">> THEN <<"ElipticCurves">> ELSE category

=============================================================================
