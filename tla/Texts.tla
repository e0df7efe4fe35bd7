------------------------------- MODULE Texts --------------------------------
(* The readers of texts together: the infostring of a request and, on the    *)
(* same text, the command of an administrator.                               *)
EXTENDS InfostringData, Utils

\* A command with blanks before, behind or between its words, however many, has
\* the words and nothing else (utils.cpp:17-35, admin_command_handler.cpp:70,
\* which counts them): stated of every text, its separators as the blanks.
TokensAreWords == loop = "done" => Tokenize(text, Slash) = Words(text, Slash)
=============================================================================
