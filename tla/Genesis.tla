------------------------------ MODULE Genesis ------------------------------
(***************************************************************************)
(* The genesis configuration: what a genesis.json, or the lack of one,     *)
(* becomes in the storage.  A number in the file is a text: hexadecimal or *)
(* decimal, with a value.  None stands for whatever does not parse: as the *)
(* value of such a text, as an address, as a slot, or as code.             *)
(***************************************************************************)
EXTENDS Blocks

CONSTANTS
    MaxU64,        \* the greatest value of 64 bits
    TestAccounts   \* the accounts of a development network, by address

Hex(value) == [base |-> "hex", value |-> value]
Dec(value) == [base |-> "dec", value |-> value]

\* Texts of 64-bit numbers: what does not parse counts as zero.
ParseU64(text) == IF text.value = None \/ text.value > MaxU64 THEN 0 ELSE text.value

\* A balance has 256 bits in hexadecimal and 64 in decimal, and only the
\* hexadecimal form can fail.
BalanceFails(text) == text.base = "hex" /\ text.value = None
ParseBalance(text) == IF text.base = "hex" THEN text.value ELSE ParseU64(text)

\* Code that is empty or not hexadecimal is no code.
ParseCode(bytes) == IF bytes \in {None, <<>>} THEN None ELSE bytes

(***************************************************************************)
(* An entry of alloc: an address, a balance, and perhaps a nonce, code and *)
(* storage.                                                                *)
(***************************************************************************)
AccountOf(entry) ==
    [nonce   |-> IF entry.nonce = None THEN 0 ELSE ParseU64(entry.nonce),
     balance |-> ParseBalance(entry.balance),
     code    |-> ParseCode(entry.code)]

EntryFails(address, entry) ==
    \/ address = None
    \/ BalanceFails(entry.balance)
    \/ \E i \in DOMAIN entry.storage : None \in {i, entry.storage[i]}

\* One entry that does not convert fails the whole conversion.
ToAccountsAndSlots(config) ==
    IF \E a \in DOMAIN config.alloc : EntryFails(a, config.alloc[a])
    THEN [error |-> "conversion"]
    ELSE [accounts |-> [a \in DOMAIN config.alloc |-> AccountOf(config.alloc[a])],
          slots    |-> [s \in UNION {{<<a, i>> : i \in DOMAIN config.alloc[a].storage} : a \in DOMAIN config.alloc}
                          |-> config.alloc[s[1]].storage[s[2]]]]

ToGenesisBlock(config) ==
    [NewBlock(0, ParseU64(config.timestamp)) EXCEPT !.header.parent = config.parent]

DefaultGenesis ==
    [timestamp |-> Hex(0),
     parent    |-> <<"zero">>,
     alloc     |-> [a \in DOMAIN TestAccounts |->
                      [balance |-> Hex(TestAccounts[a].balance),
                       nonce   |-> Hex(TestAccounts[a].nonce),
                       code    |-> TestAccounts[a].code,
                       storage |-> <<>>]]]

(***************************************************************************)
(* The file: not configured, missing, unreadable, or read.  Block and      *)
(* accounts are derived one after the other, each with its own fallback.   *)
(***************************************************************************)
GenesisBlockOf(file) ==
    IF file.is = "read" THEN ToGenesisBlock(file.config) ELSE NewBlock(0, 0)

GenesisStateOf(file) ==
    LET config    == IF file.is = "read" THEN file.config ELSE DefaultGenesis
        converted == ToAccountsAndSlots(config)
    IN  IF file.is \in {"missing", "unreadable"} \/ "error" \in DOMAIN converted
        THEN [accounts |-> TestAccounts, slots |-> <<>>]
        ELSE converted

==============================================================================
