------------------------------- MODULE Login -------------------------------
(***************************************************************************)
(* usr/sbin/login/login.c: the login prompt.  A step is one character that *)
(* kb_getchar answered.  What is shown and the delay between attempts are  *)
(* left out, except for the mask of the password.                          *)
(***************************************************************************)
EXTENDS Integers, Sequences

CONSTANTS
  MAX_LOGIN_ATTEMPTS, USERNAME_MAX_LEN, PASSWORD_MAX_LEN,
  USERNAME, PASSWORD,      \* sequences of characters
  Typed                    \* bound: the printable characters that are typed

Nul == "nul"

ASSUME LoginAssumption ==
  /\ MAX_LOGIN_ATTEMPTS \in Nat \ {0}
  /\ USERNAME_MAX_LEN \in Nat \ {0} /\ PASSWORD_MAX_LEN \in Nat \ {0}
  /\ Nul \notin Typed

VARIABLES
  username, password,   \* the buffers, up to their first Nul
  field,                \* the prompt: "login", "password", or the result: "in", "halted"
  login_pos,            \* of get_input_secure
  attempts,
  shown,                \* what the line of the prompt shows
  login_lines,          \* history variable: the characters of the two lines that were not taken back
  prompts               \* history variable: how often a name was asked for

login_vars == <<username, password, field, login_pos, attempts, shown, login_lines, prompts>>

secure_clear_buffer(size) == [i \in 0 .. size - 1 |-> Nul]
Size == IF field = "login" THEN USERNAME_MAX_LEN ELSE PASSWORD_MAX_LEN
buffer == IF field = "login" THEN username ELSE password
Prompting == field \in {"login", "password"}

\* The string in a buffer ends at its first NUL.
Text(buf) ==
  LET n == CHOOSE n \in DOMAIN buf : buf[n] = Nul /\ \A i \in 0 .. n - 1 : buf[i] # Nul
  IN [i \in 1 .. n |-> buf[i - 1]]

LoginInit ==
  /\ username = secure_clear_buffer(USERNAME_MAX_LEN)
  /\ password = secure_clear_buffer(PASSWORD_MAX_LEN)
  /\ field = "login" /\ login_pos = 0 /\ attempts = 0 /\ shown = <<>>
  /\ login_lines = [login |-> <<>>, password |-> <<>>] /\ prompts = 1

Edit(buf, at, line, echo) ==
  /\ IF field = "login" THEN username' = buf /\ UNCHANGED password ELSE password' = buf /\ UNCHANGED username
  /\ login_pos' = at /\ login_lines' = [login_lines EXCEPT ![field] = line] /\ shown' = echo
  /\ UNCHANGED <<field, attempts, prompts>>

Full == login_pos >= Size - 1

Character ==
  /\ Prompting
  /\ \E c \in Typed :
       IF Full THEN Edit(buffer, login_pos, login_lines[field], shown)
       ELSE Edit([buffer EXCEPT ![login_pos] = c], login_pos + 1, Append(login_lines[field], c),
                 Append(shown, IF field = "password" THEN "*" ELSE c))

Erase ==
  /\ Prompting
  /\ IF login_pos = 0 THEN Edit(buffer, login_pos, login_lines[field], shown)
     ELSE Edit([buffer EXCEPT ![login_pos - 1] = Nul], login_pos - 1,
               SubSeq(login_lines[field], 1, login_pos - 1), SubSeq(shown, 1, login_pos - 1))

-----------------------------------------------------------------------------

\* The end of login_authenticate: both buffers are cleared; or of an attempt: the next clears them.
Cleared(next) ==
  /\ field' = next /\ login_pos' = 0 /\ shown' = <<>>
  /\ username' = secure_clear_buffer(USERNAME_MAX_LEN)
  /\ password' = secure_clear_buffer(PASSWORD_MAX_LEN)

\* Mutant: a line that was refused is not counted.
FailUncounted ==
  /\ attempts' = IF field = "password" THEN attempts + 1 ELSE attempts
  /\ Cleared(IF attempts' = MAX_LOGIN_ATTEMPTS THEN "halted" ELSE "login")
  /\ login_lines' = [login |-> <<>>, password |-> <<>>]
  /\ prompts' = IF field' = "login" THEN prompts + 1 ELSE prompts

Fail ==
  /\ attempts' = attempts + 1
  /\ Cleared(IF attempts + 1 = MAX_LOGIN_ATTEMPTS THEN "halted" ELSE "login")
  /\ login_lines' = [login |-> <<>>, password |-> <<>>]
  /\ prompts' = IF field' = "login" THEN prompts + 1 ELSE prompts

\* Escape gives the line up.
Cancel == Prompting /\ Fail

Return ==
  /\ Prompting
  /\ \/ field = "login" /\ Text(username) = <<>> /\ Fail
     \/ /\ field = "login" /\ Text(username) # <<>>
        /\ field' = "password" /\ login_pos' = 0 /\ shown' = <<>>
        /\ UNCHANGED <<username, password, attempts, login_lines, prompts>>
     \/ /\ field = "password"
        /\ IF Text(username) = USERNAME /\ Text(password) = PASSWORD
           THEN Cleared("in") /\ UNCHANGED <<attempts, login_lines, prompts>> ELSE Fail

LoginNext == Character \/ Erase \/ Cancel \/ Return
LoginSpec == LoginInit /\ [][LoginNext]_login_vars

-----------------------------------------------------------------------------
(* Properties. *)

\* The two lines that let somebody in are the right ones, as they were typed and corrected; a name is
\* asked for as often as the limit says, never more; what was typed stays in no buffer once it was decided, and a
\* password is never on the screen (login.c:28-81, 129-174).
LoginDecides ==
  /\ field = "in" => login_lines.login = USERNAME /\ login_lines.password = PASSWORD
  /\ prompts <= MAX_LOGIN_ATTEMPTS /\ (field = "halted" => prompts = MAX_LOGIN_ATTEMPTS)
  /\ ~Prompting => \A i \in DOMAIN username : username[i] = Nul
  /\ ~Prompting => \A i \in DOMAIN password : password[i] = Nul
  /\ field = "password" => \A i \in DOMAIN shown : shown[i] = "*"
  /\ Prompting => Text(buffer) = login_lines[field] /\ Len(shown) = login_pos
=============================================================================
