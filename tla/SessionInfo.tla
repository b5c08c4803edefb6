---------------------------- MODULE SessionInfo -----------------------------
(***************************************************************************)
(* The messages between ServerCenter and the processes that connect to it  *)
(* (SessionInfo/SessionInfo.h).  A handle is the number of the center's    *)
(* file descriptor for a session; 0 is no handle, and as the destination   *)
(* of a command it means the center itself.                                *)
(*                                                                         *)
(* The data of a transmit is abstracted to a number, id, that no two       *)
(* transmits share.  A result carries in `of' the id of the transmit that  *)
(* it answers and a command result in `of' the id of its command; the code *)
(* sends neither and no handler looks at them, they are there for the      *)
(* properties.                                                             *)
(***************************************************************************)
EXTENDS Naturals

CONSTANTS
    Names,      \* the names servers register under
    NoName,     \* the empty name of a session that has not sent MyName
    Handles     \* the file descriptors the center can get for a session

ASSUME NamesAssumption == NoName \notin Names
NoHandle == 0

ASSUME HandlesAssumption == NoHandle \notin Handles

NameOrNone == Names \cup {NoName}
HandleOrNone == Handles \cup {NoHandle}

MyName(n) == [class |-> "MyName", name |-> n]
MyHandle(h) == [class |-> "MyHandle", handle |-> h]
AddNameHandle(n, h) == [class |-> "AddNameHandle", name |-> n, handle |-> h]
RemoveNameHandle(n, h) == [class |-> "RemoveNameHandle", name |-> n, handle |-> h]
ClearNameHandleList == [class |-> "ClearNameHandleList"]
Transmit(seq, src, dest, id) ==
    [class |-> "Transmit", seq |-> seq, src |-> src, dest |-> dest, id |-> id]
TransmitResult(seq, src, dest, ok, id) ==
    [class |-> "TransmitResult", seq |-> seq, src |-> src, dest |-> dest,
     ok |-> ok, of |-> id]
Command(src, dest, id) == [class |-> "Command", src |-> src, dest |-> dest, of |-> id]

(* MessageTransmit::IsValid *)
TransmitIsValid(src, dest) == src # NoHandle /\ dest # NoHandle

(* The types of the messages, and which way they travel. *)
TransmitType ==
    [class : {"Transmit"}, seq : Nat, src : HandleOrNone, dest : HandleOrNone, id : Nat]
TransmitResultType ==
    [class : {"TransmitResult"}, seq : Nat, src : HandleOrNone, dest : HandleOrNone,
     ok : BOOLEAN, of : Nat]
CommandType ==
    [class : {"Command"}, src : HandleOrNone, dest : HandleOrNone, of : Nat]

UpMessage ==
    [class : {"MyName"}, name : Names]
        \cup TransmitType \cup TransmitResultType \cup CommandType

DownMessage ==
    [class : {"MyHandle"}, handle : Handles]
        \cup [class : {"AddNameHandle"}, name : Names, handle : Handles]
        \cup [class : {"RemoveNameHandle"}, name : NameOrNone, handle : Handles]
        \cup [class : {"ClearNameHandleList"}]
        \cup TransmitType \cup TransmitResultType \cup CommandType
=============================================================================
