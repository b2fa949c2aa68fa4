----------------------------- MODULE MCAccounts -----------------------------
\* Small instances of Accounts.
EXTENDS Accounts, TLC

\* Addresses, passwords, requests and browsers are interchangeable.
AccountSymmetry ==
    Permutations(Emails) \union Permutations(Passwords) \union Permutations(Requests)
        \union Permutations(Browsers)
=============================================================================
