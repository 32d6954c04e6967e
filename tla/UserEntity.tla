----------------------------- MODULE UserEntity -----------------------------
(***************************************************************************)
(* entities/user: the checks that a username and a password pass before    *)
(* they are used.  A string is what it says, how long that is, and the     *)
(* number of spaces around it.                                             *)
(***************************************************************************)
EXTENDS Naturals

CONSTANT Ids    \* what strings say, spaces around it aside

Strings == [name : Ids, size : Nat, pad : Nat]

USERNAME_MIN == 8
USERNAME_MAX == 60
PASSWORD_MIN == 8
PASSWORD_MAX == 60

Length(s) == s.size + s.pad

\* utils::string::trim
Trim(s) == [s EXCEPT !.pad = 0]

\* Slip: the length is looked at before the spaces are cut off.
ValidateAsGiven(username) ==
    CASE Length(username) < USERNAME_MIN -> "username: min"
      [] Length(username) > USERNAME_MAX -> "username: max"
      [] OTHER -> "none"

\* validate_username
ValidateUsername(username) ==
    CASE Length(Trim(username)) < USERNAME_MIN -> "username: min"
      [] Length(Trim(username)) > USERNAME_MAX -> "username: max"
      [] OTHER -> "none"

\* Slip: the username is checked without its spaces and kept with them.
MakeUserAsGiven(username) ==
    [username |-> username, error |-> ValidateUsername(username)]

\* entity::make_user: trim has changed the caller's string.
MakeUser(username) ==
    [username |-> Trim(username), error |-> ValidateUsername(username)]

\* IUser::set_password, given the length of the password
SetPassword(size) ==
    CASE size < PASSWORD_MIN -> "password: min"
      [] size > PASSWORD_MAX -> "password: max"
      [] OTHER -> "none"
=============================================================================
