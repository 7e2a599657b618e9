SPECIFICATION OrderlySpec
CONSTANTS
  Clients = {c1}
  Invoices = {1, 2}
  CashInvoices = {2}
  Total = 300
  Amounts = {100, 301}
  DEC = 1
  MaxPays = 2
  MaxAllocs = 3
INVARIANTS
  TypeOK
  DraftUnpaid
  PaidIsAllocated
  WithinPayment
