---------------------------- MODULE Conversions ----------------------------
(***************************************************************************)
(* What happens to one field on its way through an administration form: a *)
(* stored value is shown as text, the text is edited and sent, the server *)
(* stores it over the row it read.  Values are the few strings that tell  *)
(* these conversions apart: a number input holds "", "0" or another       *)
(* number, "NULL" is a missing column, "a," a list typed with a stray     *)
(* comma, "a " a text with a blank at its end, "long" and "wide" are texts *)
(* too long for their column, of which "cut" and "cut " are left.          *)
(***************************************************************************)
EXTENDS Sequences, FiniteSets

Texts == {"", "0", "1", "3", "4", "5", "NULL", "a", "b", "a,", "a, b", "A",
          "true", "false", "NaN", " ", "a ", "long", "wide", "cut", "cut "}

(***************************************************************************)
(* Row to form (openEdit): String(n), `v ?? ""`, (list ?? []).join(", "). *)
(***************************************************************************)
Shown(how, v) == IF how = "blank" /\ v = "NULL" THEN "" ELSE v

(***************************************************************************)
(* Form to request: parseInt(text) || default, parseInt without a default,*)
(* `text ? parseInt(text) : null`, and split-trim-filter.                  *)
(***************************************************************************)
Sent(how, t) ==
    CASE how \in {"0", "3", "5"} -> IF t \in {"", "0"} THEN how ELSE t
      [] how = "int"             -> IF t = "" THEN "NaN" ELSE t
      [] how = "null"            -> IF t = "" THEN "NULL" ELSE t
      [] how = "list"            -> IF t = "a," THEN "a" ELSE t
      [] how = "text"            -> t

\* SanitizeString: the blanks at both ends are taken off, then the text is cut
\* to its length; a cut may leave a blank at the end.
Sanitized(t) == CASE t = " "    -> ""
                  [] t = "a "   -> "a"
                  [] t = "cut " -> "cut"
                  [] t = "long" -> "cut"
                  [] t = "wide" -> "cut "
                  [] OTHER      -> t

(***************************************************************************)
(* Request to row, on an update.  "set": assigned.  "sanitized": assigned *)
(* as SanitizeString returns it.  "nonblank": assigned unless blank, zero *)
(* or nil.  "anchored": assigned, then written back from the region loaded *)
(* with the row.  "never": not assigned.                                   *)
(***************************************************************************)
Updated(policy, old, b) ==
    CASE policy = "set"       -> b
      [] policy = "sanitized" -> Sanitized(b)
      [] policy = "nonblank"  -> IF b \in {"", "0", "NULL"} THEN old ELSE b
      [] policy = "anchored"  -> IF old = "NULL" THEN b ELSE old
      [] policy = "never"     -> old

\* On a creation: "true" is a column whose default replaces false, and
\* "null" a column that the service leaves out.
Created(policy, b) == CASE policy = "as sent"   -> b
                        [] policy = "sanitized" -> Sanitized(b)
                        [] policy = "true"      -> "true"
                        [] policy = "null"      -> "NULL"

(***************************************************************************)
(* What an input may hold when the form is submitted.  A required input   *)
(* is not blank; a list of regions that never arrives offers nothing.     *)
(***************************************************************************)
Typed(input) ==
    CASE input = "text"      -> {"", "a", "b"}
      [] input = "text*"     -> {"a", "b"}
      [] input = "line"      -> {"", "a", "b", " ", "a ", "long", "wide"}
      [] input = "line*"     -> {"a", "b", " ", "a ", "long", "wide"}
      [] input = "capitals*" -> {"A"}
      [] input \in {"number", "seats"} -> {"", "0", "1", "4"}
      [] input = "number*"   -> {"0", "1", "4"}
      [] input = "count"     -> {"0", "1", "4"}
      [] input = "grade"     -> {"1", "3", "4"}
      [] input = "list"      -> {"", "a", "a,", "a, b"}
      [] input = "choices"   -> {"", "a", "a, b"}
      [] input = "option"    -> {"a", "b"}
      [] input = "option*"   -> {"1", "4"}
      [] input = "regions"   -> {""}
      [] input = "moment"    -> {"", "1"}
      [] input = "flag"      -> {"true", "false"}
      [] input = "none"      -> {}

\* What a row may hold in a field with that input.
Held(input) ==
    CASE input \in {"number", "number*", "count"} -> {"0", "1", "4"}
      [] input = "seats"   -> {"1", "4"}
      [] input \in {"line", "line*"} -> {"", "a", "b", "cut", "cut "}
      [] input = "list"    -> {"", "a", "a, b"}
      [] input = "regions" -> {"NULL", "1", "4"}
      [] input = "moment"  -> {"NULL"}
      [] input = "none"    -> {"a", "b"}
      [] OTHER             -> Typed(input)

\* What a row's control may ask for when it shows v: the opposite for a
\* switch, any other value for a choice.
Offered(how, v) == (CASE how = "negation" -> {"true", "false"}
                      [] how = "another"  -> {"a", "b"}
                      [] how = "none"     -> {}) \ {v}
============================================================================
