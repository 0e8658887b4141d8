------------------------------ MODULE ToolCalls ------------------------------
(***************************************************************************)
(* The two versions of the question to the language model in run.py.  In   *)
(* get_true_category the model may answer with calls of the tool           *)
(* identify_algorithm instead of text.  The response grows as the model    *)
(* generates it, and is used when it is complete.  scan_folder calls the   *)
(* other one, get_true_category_v2_codellama, which takes text only and    *)
(* makes Verdict(message) of it if generation stops there.                 *)
(***************************************************************************)
EXTENDS Labels

CONSTANTS
  Tools,         \* the names of tools the model can call
  ArgSets,       \* the sets of arguments it can pass
  Algorithms,    \* the values of the argument algorithm_name
  Fragments,     \* the fragments of a textual answer
  MaxCalls, MaxLen,  \* bounds on the calls and the text of a response
  MaxBeside          \* bound on the text of a response that has calls

(* What stands for the exception is nothing the model can write. *)
ASSUME ToolCallsAssumption == \A f \in Fragments : <<f>> # IndexError

VARIABLES
  stage,         \* "ask", "response", "returned" or the exception
  calls,         \* the tool calls of the response, in order
  message,       \* its text
  printed,       \* what identify_algorithm has printed
  result         \* what get_true_category returns

askVars == <<stage, calls, message, printed, result>>

Calls == [name : Tools, args : ArgSets, algorithm_name : Algorithms]

AskInit ==
  /\ stage = "ask"
  /\ calls = <<>> /\ message = <<>>
  /\ printed = <<>> /\ result = None

(* The model adds a tool call or a fragment of text. *)
Generate ==
  /\ stage = "ask"
  /\ \/ /\ Len(calls) < MaxCalls /\ Len(message) <= MaxBeside
        /\ \E c \in Calls : calls' = Append(calls, c)
        /\ UNCHANGED message
     \/ /\ Len(message) < IF calls = <<>> THEN MaxLen ELSE MaxBeside
        /\ \E f \in Fragments : message' = Append(message, f)
        /\ UNCHANGED calls
  /\ UNCHANGED <<stage, printed, result>>

Respond ==
  /\ stage = "ask"
  /\ stage' = "response"
  /\ UNCHANGED <<calls, message, printed, result>>

(* The file cannot be read, or the request fails. *)
RequestFails ==
  /\ stage = "ask"
  /\ stage' = "failed"
  /\ UNCHANGED <<calls, message, printed, result>>

-----------------------------------------------------------------------------
AVAILABLE_FUNCTIONS == {"identify_algorithm"}

(* An argument called description is passed on as explanation. *)
Renamed(args) ==
  IF "description" \in args
  THEN (args \ {"description"}) \cup {"explanation"} ELSE args

(* The signature of identify_algorithm. *)
Accepts(args) ==
  /\ {"code", "algorithm_name"} \subseteq args
  /\ args \subseteq {"code", "algorithm_name", "explanation"}

(* The loop over the tool calls returns from its first iteration. *)
CallTool ==
  /\ stage = "response" /\ calls # <<>>
  /\ Head(calls).name \in AVAILABLE_FUNCTIONS
  /\ Accepts(Renamed(Head(calls).args))
  /\ printed' = Append(printed, Head(calls).algorithm_name)
  /\ result' = Head(calls).algorithm_name
  /\ stage' = "returned"
  /\ UNCHANGED <<calls, message>>

(* KeyError for a tool that does not exist, TypeError for its arguments. *)
CallFails ==
  /\ stage = "response" /\ calls # <<>>
  /\ \/ /\ Head(calls).name \notin AVAILABLE_FUNCTIONS
        /\ stage' = "KeyError"
     \/ /\ Head(calls).name \in AVAILABLE_FUNCTIONS
        /\ ~ Accepts(Renamed(Head(calls).args))
        /\ stage' = "TypeError"
  /\ UNCHANGED <<calls, message, printed, result>>

\* The expressions are tried in the other order.
FromTextShaFirst(text) ==
  IF Search(SHA_SPELLINGS, text) # None THEN Search(SHA_SPELLINGS, text)
  ELSE IF Search(POSSIBLE_CATEGORIES, text) # None
       THEN Search(POSSIBLE_CATEGORIES, text)
  ELSE text

(* The label in a text, without a prefix. *)
FromText(text) ==
  IF Search(POSSIBLE_CATEGORIES, text) # None
  THEN Search(POSSIBLE_CATEGORIES, text)
  ELSE IF Search(SHA_SPELLINGS, text) # None THEN IndexError
  ELSE text

ParseContent ==
  /\ stage = "response" /\ calls = <<>>
  /\ result' = FromText(Strip(message))
  /\ stage' = IF result' = IndexError THEN "IndexError" ELSE "returned"
  /\ UNCHANGED <<calls, message, printed>>

AskNext == Generate \/ Respond \/ RequestFails \/ CallTool \/ CallFails \/ ParseContent

AskSpec == AskInit /\ [][AskNext]_askVars

-----------------------------------------------------------------------------
(* What is made of a text.  group(1) is never asked of the expression that *)
(* has no group, whatever the model writes: every spelling of the second   *)
(* regular expression contains a category of the first.  An answer that is *)
(* one of the program's own category names is reported as that category,   *)
(* although one name may contain another (USES_AES and AES).  And the two  *)
(* versions of the question make the same label of the same text, except   *)
(* that the one in use marks a recognised category as the model's.         *)
TextVerdict ==
  /\ Verdict(message) # IndexError /\ stage # "IndexError"
  /\ \A i \in DOMAIN POSSIBLE_CATEGORIES :
       Strip(message) = POSSIBLE_CATEGORIES[i]
         => Verdict(message) = <<"LLM ">> \o POSSIBLE_CATEGORIES[i]
  /\ stage = "returned" /\ calls = <<>>
       => \/ Verdict(message) = result
          \/ /\ Verdict(message) = <<"LLM ">> \o result
             /\ \E i \in DOMAIN POSSIBLE_CATEGORIES :
                  POSSIBLE_CATEGORIES[i] = result

(* What follows the first category name in an answer does not change the   *)
(* verdict, unless it completes a longer name that began earlier: an       *)
(* explanation after the category is ignored by the leftmost search.       *)
LaterWordsIgnored ==
  [][LET before == Search(POSSIBLE_CATEGORIES, Strip(message))
         after  == Search(POSSIBLE_CATEGORIES, Strip(message'))
         start  == Len(message') - Len(after) + 1
     IN  before # None /\ after # before
           => /\ OccursAt(after, message', start)
              /\ \A i \in DOMAIN message :
                   OccursAt(before, message, i) => start < i]_message

=============================================================================
